---------------------------- MODULE Spec2Model ----------------------------
(***************************************************************************)
(* Model of the credit-risk KRI engine, class CreditRiskKRI of             *)
(* src/kri_calculator.py.                                                   *)
(*                                                                         *)
(* Conventions of the model                                                *)
(*  - A DataFrame is a sequence of records, one record per row, the        *)
(*    fields named as the columns of the source.                           *)
(*  - Categorical values (segment, province, industry, product, vintage)   *)
(*    are naturals standing for the strings of the source in their         *)
(*    lexicographic order, which is the order groupby() sorts by.          *)
(*  - loan_classification k stands for the string "Nhom k - ..."; the      *)
(*    strings of the five classes sort in the order of k.  The values 0    *)
(*    and 6 stand for strings outside the five-class enumeration that      *)
(*    sort before and after the five.                                      *)
(*  - Monetary amounts are naturals.  A float is an extended rational      *)
(*    [n, d]: d > 0 is the finite value n/d in lowest terms, d = 0 is a    *)
(*    non-finite IEEE value (n = 0 NaN, n > 0 +inf, n < 0 -inf).  Rounding  *)
(*    of finite values is not modelled: "within tolerance" of the source   *)
(*    is exact equality here.                                              *)
(*  - The columns of a portfolio carry a numeric dtype (as the frames the  *)
(*    generator produces, and their filters), so sums are numpy scalars    *)
(*    and a division by zero yields NaN or inf, never ZeroDivisionError.   *)
(***************************************************************************)
EXTENDS Integers, Sequences, FiniteSets, TLC

(***************************************************************************)
(* Bounds of the model                                                     *)
(***************************************************************************)
MaxLoans == 2
MaxHist == 3
MaxCats == 5
NumCallers == 2

(***************************************************************************)
(* Float arithmetic (numpy float64, exact on finite values)                *)
(***************************************************************************)
Abs(x) == IF x < 0 THEN -x ELSE x

Sign(x) == IF x < 0 THEN -1 ELSE IF x > 0 THEN 1 ELSE 0

RECURSIVE GCD(_, _)
GCD(a, b) == IF b = 0 THEN a ELSE GCD(b, a % b)

Q(n, d) ==
    LET g == GCD(Abs(n), Abs(d))
    IN  [n |-> Sign(d) * (n \div g), d |-> Abs(d) \div g]

F(x) == [n |-> x, d |-> 1]

NaN == [n |-> 0, d |-> 0]

IsFinite(a) == a.d # 0

IsNaN(a) == a.d = 0 /\ a.n = 0

FMul(a, b) ==
    IF IsFinite(a) /\ IsFinite(b)
    THEN Q(a.n * b.n, a.d * b.d)
    ELSE [n |-> Sign(a.n) * Sign(b.n), d |-> 0]

FDiv(a, b) ==
    IF IsFinite(a) /\ IsFinite(b)
    THEN IF b.n = 0
         THEN [n |-> Sign(a.n), d |-> 0]
         ELSE Q(a.n * b.d, a.d * b.n)
    ELSE IF IsFinite(b)
         THEN [n |-> IF b.n = 0 THEN Sign(a.n) ELSE Sign(a.n) * Sign(b.n), d |-> 0]
         ELSE IF IsFinite(a) /\ ~IsNaN(b) THEN F(0) ELSE NaN

FAdd(a, b) ==
    IF IsFinite(a) /\ IsFinite(b)
    THEN Q(a.n * b.d + b.n * a.d, a.d * b.d)
    ELSE IF IsNaN(a) \/ IsNaN(b) THEN NaN
    ELSE IF IsFinite(a) THEN b
    ELSE IF IsFinite(b) THEN a
    ELSE IF Sign(a.n) = Sign(b.n) THEN a ELSE NaN

FLt(a, b) ==
    IF IsNaN(a) \/ IsNaN(b) THEN FALSE
    ELSE IF IsFinite(a) /\ IsFinite(b) THEN a.n * b.d < b.n * a.d
    ELSE IF IsFinite(a) THEN b.n > 0
    ELSE IF IsFinite(b) THEN a.n < 0
    ELSE a.n < b.n

FGt(a, b) == FLt(b, a)

\* part / total * 100
Pct(part, total) == FMul(FDiv(F(part), F(total)), F(100))

\* Series.sum(): skipna=True, the sum of no value is 0
RECURSIVE FSum(_)
FSum(s) ==
    IF s = << >> THEN F(0)
    ELSE IF IsNaN(Head(s)) THEN FSum(Tail(s))
    ELSE FAdd(Head(s), FSum(Tail(s)))

(***************************************************************************)
(* DataFrame helpers                                                       *)
(***************************************************************************)
\* df[col].sum() of an integer column
RECURSIVE ColSum(_, _)
ColSum(d, col) ==
    IF d = << >> THEN 0 ELSE Head(d)[col] + ColSum(Tail(d), col)

\* df[col].mean(): NaN on no row
ColMean(d, col) == FDiv(F(ColSum(d, col)), F(Len(d)))

Range(s) == {s[i] : i \in DOMAIN s}

Min(S) == CHOOSE x \in S : \A y \in S : x <= y

Max(S) == CHOOSE x \in S : \A y \in S : x >= y

RECURSIVE SortedAsc(_)
SortedAsc(S) ==
    IF S = {} THEN << >> ELSE <<Min(S)>> \o SortedAsc(S \ {Min(S)})

\* mutant of GroupKeys: the values outside 1..5 grouped under one key 0
GroupKeys_other(d, col) ==
    SortedAsc({IF d[i][col] \in 1..5 THEN d[i][col] ELSE 0 : i \in DOMAIN d})

\* the group keys of df.groupby(col), in groupby's sorted order
GroupKeys(d, col) == SortedAsc({d[i][col] : i \in DOMAIN d})

\* the rows of one group
Group(d, col, k) == SelectSeq(d, LAMBDA l : l[col] = k)

\* "a / b * 100 if b > 0 else 0" of the per-group lambdas
GroupRatio(part, total) == IF total > 0 THEN Pct(part, total) ELSE F(0)

Bal == "outstanding_balance_vnd_mil"

(***************************************************************************)
(* Fixed vocabularies and configuration                                    *)
(***************************************************************************)
\* class_order / all_classes: "Nhom 1" .. "Nhom 5" in severity order
class_order == <<1, 2, 3, 4, 5>>

all_classes == <<1, 2, 3, 4, 5>>

\* ['Nhom 4 - Nghi ngo', 'Nhom 5 - Ton that']
NplClasses == {4, 5}

\* 'Nhom 2 - Can chu y'
WatchClass == 2

RiskAppetite ==
    [npl_ratio_max |-> F(3),
     par30_ratio_max |-> F(5),
     par90_ratio_max |-> Q(7, 2),
     single_borrower_max |-> F(15),
     industry_concentration_max |-> F(25),
     province_concentration_max |-> F(40)]

\* the columns of a generated portfolio
PortfolioColumns ==
    {"loan_id", "customer_segment", "province", "industry", "loan_type",
     "origination_date", "original_amount_vnd_mil", "outstanding_balance_vnd_mil",
     "term_months", "interest_rate_pct", "days_past_due", "loan_classification",
     "months_on_book", "utilization_pct", "vintage"}

\* the columns each calculation reads; reading a column the frame does not
\* have raises KeyError
NplColumns ==
    {"loan_classification", "days_past_due", "outstanding_balance_vnd_mil",
     "customer_segment", "loan_type", "industry", "province"}

ParColumns == {"days_past_due", "outstanding_balance_vnd_mil", "customer_segment"}

QualityColumns == {"outstanding_balance_vnd_mil", "loan_classification", "loan_id"}

ConcentrationColumns ==
    {"outstanding_balance_vnd_mil", "industry", "province", "loan_type",
     "customer_segment"}

VintageColumns ==
    {"vintage", "outstanding_balance_vnd_mil", "loan_classification", "days_past_due"}

SegmentColumns ==
    {"customer_segment", "outstanding_balance_vnd_mil", "interest_rate_pct",
     "loan_classification", "days_past_due", "months_on_book"}

EarlyWarningColumns ==
    {"days_past_due", "loan_classification", "months_on_book",
     "outstanding_balance_vnd_mil"}

KeyError(needed, present) == needed \ present # {}

(***************************************************************************)
(* calculate_npl_metrics                                                   *)
(***************************************************************************)
\* mutant of npl_mask: the two conditions joined by AND
npl_mask_and(l) == l.loan_classification \in NplClasses /\ l.days_past_due >= 90

npl_mask(l) == l.loan_classification \in NplClasses \/ l.days_past_due >= 90

\* mutant of ClassIsNpl: the mask of the headline metrics in the tables too
ClassIsNpl_or(l) == l.loan_classification \in NplClasses \/ l.days_past_due >= 90

ClassIsNpl(l) == l.loan_classification \in NplClasses

\* mutant of WithinAppetite: value <= limit
WithinAppetite_le(value, limit) == FLt(value, limit) \/ (IsFinite(value) /\ value = limit)

\* value < limit of the within_risk_appetite entries
WithinAppetite(value, limit) == FLt(value, limit)

\* one breakdown table: groupby(col).apply(...).reset_index()
NplBreakdown(d, col) ==
    LET keys == GroupKeys(d, col)
    IN  [i \in 1..Len(keys) |->
            LET x == Group(d, col, keys[i])
                tb == ColSum(x, Bal)
                nb == ColSum(SelectSeq(x, ClassIsNpl), Bal)
            IN  [key |-> keys[i],
                 total_balance |-> tb,
                 npl_balance |-> nb,
                 npl_ratio |-> GroupRatio(nb, tb)]]

calculate_npl_metrics(d, ra) ==
    LET total_loans == Len(d)
        total_balance == ColSum(d, Bal)
        npl == SelectSeq(d, npl_mask)
        npl_loans == Len(npl)
        npl_balance == ColSum(npl, Bal)
        ratio == Pct(npl_balance, total_balance)
    IN  [npl_count |-> npl_loans,
         npl_count_ratio |-> Pct(npl_loans, total_loans),
         npl_balance |-> npl_balance,
         npl_balance_ratio |-> ratio,
         total_loans |-> total_loans,
         total_balance |-> total_balance,
         within_risk_appetite |-> WithinAppetite(ratio, ra.npl_ratio_max),
         risk_appetite_limit |-> ra.npl_ratio_max,
         risk_appetite_utilization |-> FMul(FDiv(ratio, ra.npl_ratio_max), F(100)),
         by_segment |-> NplBreakdown(d, "customer_segment"),
         by_product |-> NplBreakdown(d, "loan_type"),
         by_industry |-> NplBreakdown(d, "industry"),
         by_province |-> NplBreakdown(d, "province")]

(***************************************************************************)
(* calculate_par_metrics                                                   *)
(***************************************************************************)
\* mutant of ParRows: the boundary exclusive
ParRows_exclusive(d, bucket) == SelectSeq(d, LAMBDA l : l.days_past_due > bucket)

\* mutant of ParRows: the band of 30 days that starts at the bucket
ParRows_band(d, bucket) ==
    SelectSeq(d, LAMBDA l : l.days_past_due >= bucket /\ l.days_past_due < bucket + 30)

\* the rows with days_past_due >= bucket
ParRows(d, bucket) == SelectSeq(d, LAMBDA l : l.days_past_due >= bucket)

ParBucket(d, bucket) ==
    [balance |-> ColSum(ParRows(d, bucket), Bal),
     ratio |-> Pct(ColSum(ParRows(d, bucket), Bal), ColSum(d, Bal)),
     count |-> Len(ParRows(d, bucket))]

ParBucketLimited(d, bucket, limit) ==
    [balance |-> ColSum(ParRows(d, bucket), Bal),
     ratio |-> Pct(ColSum(ParRows(d, bucket), Bal), ColSum(d, Bal)),
     count |-> Len(ParRows(d, bucket)),
     within_risk_appetite |->
         WithinAppetite(Pct(ColSum(ParRows(d, bucket), Bal), ColSum(d, Bal)), limit),
     risk_appetite_limit |-> limit]

ParBySegment(d) ==
    LET keys == GroupKeys(d, "customer_segment")
    IN  [i \in 1..Len(keys) |->
            LET x == Group(d, "customer_segment", keys[i])
            IN  [key |-> keys[i],
                 par30_ratio |-> GroupRatio(ColSum(ParRows(x, 30), Bal), ColSum(x, Bal)),
                 par90_ratio |-> GroupRatio(ColSum(ParRows(x, 90), Bal), ColSum(x, Bal))]]

calculate_par_metrics(d, ra) ==
    [par30 |-> ParBucketLimited(d, 30, ra.par30_ratio_max),
     par60 |-> ParBucket(d, 60),
     par90 |-> ParBucketLimited(d, 90, ra.par90_ratio_max),
     par180 |-> ParBucket(d, 180),
     by_segment |-> ParBySegment(d)]

(***************************************************************************)
(* calculate_quality_distribution                                          *)
(***************************************************************************)
\* position of a classification in class_order, 0 (NaN of the map) if absent
SortOrder(c) ==
    IF \E i \in DOMAIN class_order : class_order[i] = c
    THEN CHOOSE i \in DOMAIN class_order : class_order[i] = c
    ELSE 0

\* mutant of SortByClassOrder: sort_values('sort_order', ascending=False)
SortByClassOrder_desc(keys) ==
    LET mapped == SelectSeq(class_order, LAMBDA c : c \in Range(keys))
    IN  [i \in 1..Len(mapped) |-> mapped[Len(mapped) + 1 - i]]
            \o SelectSeq(keys, LAMBDA c : SortOrder(c) = 0)

\* mutant of SortByClassOrder: the rows left in the key order of groupby
SortByClassOrder_groupby(keys) == keys

\* sort_values('sort_order'): mapped classes by position, unmapped (NaN) last
SortByClassOrder(keys) ==
    SelectSeq(class_order, LAMBDA c : c \in Range(keys))
        \o SelectSeq(keys, LAMBDA c : SortOrder(c) = 0)

\* mutant of ColumnPct: the column's count() as the denominator
ColumnPct_count(part, rows, col) == Pct(part, Len(rows))

\* distribution[col] / distribution[col].sum() * 100, for one row
ColumnPct(part, rows, col) == Pct(part, ColSum(rows, col))

calculate_quality_distribution(d) ==
    LET keys == GroupKeys(d, "loan_classification")
        distribution ==
            [i \in 1..Len(keys) |->
                [classification |-> keys[i],
                 count |-> Len(Group(d, "loan_classification", keys[i])),
                 balance |-> ColSum(Group(d, "loan_classification", keys[i]), Bal)]]
        row(k) == distribution[CHOOSE i \in DOMAIN keys : keys[i] = k]
        sorted == SortByClassOrder(keys)
    IN  [i \in 1..Len(sorted) |->
            [classification |-> sorted[i],
             count |-> row(sorted[i]).count,
             balance |-> row(sorted[i]).balance,
             count_pct |-> ColumnPct(row(sorted[i]).count, distribution, "count"),
             balance_pct |-> ColumnPct(row(sorted[i]).balance, distribution, "balance")]]

(***************************************************************************)
(* calculate_concentration_risk                                            *)
(***************************************************************************)
\* groupby(col)[balance].sum(): rows [key, value] in key order
GroupBalances(d, col) ==
    LET keys == GroupKeys(d, col)
    IN  [i \in 1..Len(keys) |->
            [key |-> keys[i], value |-> ColSum(Group(d, col, keys[i]), Bal)]]

\* sort_values(ascending=False); equal values keep their order
RECURSIVE SortValuesDesc(_)
SortValuesDesc(rows) ==
    IF rows = << >> THEN << >>
    ELSE LET m == Max({rows[i].value : i \in DOMAIN rows})
             j == Min({i \in DOMAIN rows : rows[i].value = m})
         IN  <<rows[j]>> \o
             SortValuesDesc(SubSeq(rows, 1, j - 1) \o SubSeq(rows, j + 1, Len(rows)))

\* conc / total_balance * 100
ConcPct(d, col) ==
    LET conc == SortValuesDesc(GroupBalances(d, col))
    IN  [i \in 1..Len(conc) |->
            [key |-> conc[i].key, pct |-> Pct(conc[i].value, ColSum(d, Bal))]]

PctValues(cp) == [i \in 1..Len(cp) |-> cp[i].pct]

\* series.iloc[:3]
Head3(s) == SubSeq(s, 1, IF Len(s) < 3 THEN Len(s) ELSE 3)

\* mutant of HHI: the shares summed without squaring
HHI_unsquared(cp) == FSum([i \in 1..Len(cp) |-> cp[i].pct])

\* (pct ** 2).sum()
HHI(cp) == FSum([i \in 1..Len(cp) |-> FMul(cp[i].pct, cp[i].pct)])

\* mutant of ConcentrationLevel: the thresholds inclusive
ConcentrationLevel_inclusive(hhi) ==
    IF ~FLt(hhi, F(2500)) THEN "High"
    ELSE IF ~FLt(hhi, F(1500)) THEN "Moderate" ELSE "Low"

ConcentrationLevel(hhi) ==
    IF FGt(hhi, F(2500)) THEN "High"
    ELSE IF FGt(hhi, F(1500)) THEN "Moderate" ELSE "Low"

\* series.iloc[0] of an empty series raises IndexError
ConcentrationRaises(d) == Len(d) = 0

calculate_concentration_risk(d, ra) ==
    LET industry_conc_pct == ConcPct(d, "industry")
        province_conc_pct == ConcPct(d, "province")
    IN  [industry |->
            [top_industry |-> industry_conc_pct[1].pct,
             top_3_total |-> FSum(PctValues(Head3(industry_conc_pct))),
             hhi |-> HHI(industry_conc_pct),
             concentration_level |-> ConcentrationLevel(HHI(industry_conc_pct)),
             within_risk_appetite |->
                 WithinAppetite(industry_conc_pct[1].pct, ra.industry_concentration_max),
             details |-> industry_conc_pct],
         province |->
            [top_province |-> province_conc_pct[1].pct,
             top_3_total |-> FSum(PctValues(Head3(province_conc_pct))),
             hhi |-> HHI(province_conc_pct),
             concentration_level |-> ConcentrationLevel(HHI(province_conc_pct)),
             within_risk_appetite |->
                 WithinAppetite(province_conc_pct[1].pct, ra.province_concentration_max),
             details |-> province_conc_pct],
         product |-> [details |-> ConcPct(d, "loan_type")],
         segment |-> [details |-> ConcPct(d, "customer_segment")]]

(***************************************************************************)
(* calculate_vintage_analysis, calculate_segment_performance               *)
(***************************************************************************)
calculate_vintage_analysis(d) ==
    LET keys == GroupKeys(d, "vintage")
    IN  [i \in 1..Len(keys) |->
            LET x == Group(d, "vintage", keys[i])
                n == SelectSeq(x, ClassIsNpl)
            IN  [key |-> keys[i],
                 total_loans |-> Len(x),
                 total_balance |-> ColSum(x, Bal),
                 npl_count |-> Len(n),
                 npl_balance |-> ColSum(n, Bal),
                 npl_ratio |-> GroupRatio(ColSum(n, Bal), ColSum(x, Bal)),
                 avg_dpd |-> ColMean(x, "days_past_due")]]

calculate_segment_performance(d) ==
    LET keys == GroupKeys(d, "customer_segment")
    IN  [i \in 1..Len(keys) |->
            LET x == Group(d, "customer_segment", keys[i])
                n == SelectSeq(x, ClassIsNpl)
            IN  [key |-> keys[i],
                 total_loans |-> Len(x),
                 total_balance |-> ColSum(x, Bal),
                 avg_loan_size |-> ColMean(x, Bal),
                 avg_interest_rate |-> ColMean(x, "interest_rate_pct"),
                 npl_count |-> Len(n),
                 npl_ratio |-> GroupRatio(ColSum(n, Bal), ColSum(x, Bal)),
                 par30_ratio |-> GroupRatio(ColSum(ParRows(x, 30), Bal), ColSum(x, Bal)),
                 avg_dpd |-> ColMean(x, "days_past_due"),
                 avg_months_on_book |-> ColMean(x, "months_on_book")]]

(***************************************************************************)
(* calculate_early_warning_indicators                                      *)
(***************************************************************************)
early_delinquency_mask(l) == l.days_past_due > 0 /\ l.days_past_due < 30

watch_list_mask(l) == l.loan_classification = WatchClass

\* mutant of new_loans_issues_mask: the early delinquencies left out
new_loans_issues_mask_exclusive(l) ==
    l.months_on_book < 6 /\ l.days_past_due > 0 /\ ~early_delinquency_mask(l)

new_loans_issues_mask(l) == l.months_on_book < 6 /\ l.days_past_due > 0

Indicator(d, rows) ==
    [count |-> Len(rows),
     balance |-> ColSum(rows, Bal),
     ratio |-> Pct(ColSum(rows, Bal), ColSum(d, Bal))]

calculate_early_warning_indicators(d) ==
    [early_delinquency |-> Indicator(d, SelectSeq(d, early_delinquency_mask)),
     watch_list |-> Indicator(d, SelectSeq(d, watch_list_mask)),
     new_loans_issues |-> Indicator(d, SelectSeq(d, new_loans_issues_mask))]


(***************************************************************************)
(* calculate_migration_matrix                                              *)
(***************************************************************************)
\* mutant of Unique: the values with their repetitions
Unique_keepAll(s) == s

\* Series.unique(): the distinct values in order of first appearance
RECURSIVE Unique(_)
Unique(s) ==
    IF s = << >> THEN << >>
    ELSE LET u == Unique(SubSeq(s, 1, Len(s) - 1))
         IN  IF s[Len(s)] \in Range(u) THEN u ELSE Append(u, s[Len(s)])

\* mutant of SortedReverse: the values left in their order of appearance
SortedReverse_unsorted(s) == s

\* sorted(values, reverse=True)
RECURSIVE SortedReverse(_)
SortedReverse(s) ==
    IF s = << >> THEN << >>
    ELSE LET m == Max(Range(s))
             j == Min({i \in DOMAIN s : s[i] = m})
         IN  <<m>> \o SortedReverse(SubSeq(s, 1, j - 1) \o SubSeq(s, j + 1, Len(s)))

SnapshotDates(h) == [i \in 1..Len(h) |-> h[i].snapshot_date]

\* mutant of SnapshotRows: the rows of the snapshot and of every older one
SnapshotRows_upTo(h, date) ==
    LET rows == SelectSeq(h, LAMBDA r : r.snapshot_date <= date)
    IN  [i \in 1..Len(rows) |->
            [loan_id |-> rows[i].loan_id, class |-> rows[i].loan_classification]]

\* the rows of one snapshot, columns loan_id and loan_classification
SnapshotRows(h, date) ==
    LET rows == SelectSeq(h, LAMBDA r : r.snapshot_date = date)
    IN  [i \in 1..Len(rows) |->
            [loan_id |-> rows[i].loan_id, class |-> rows[i].loan_classification]]

\* mutant of Merge: every previous row paired with every current row
Merge_cross(prev, cur) ==
    [k \in 1..(Len(prev) * Len(cur)) |->
        [loan_id |-> prev[((k - 1) \div Len(cur)) + 1].loan_id,
         previous_class |-> prev[((k - 1) \div Len(cur)) + 1].class,
         current_class |-> cur[((k - 1) % Len(cur)) + 1].class]]

\* pd.merge(df_previous, df_current, on='loan_id', how='inner')
RECURSIVE Merge(_, _)
Merge(prev, cur) ==
    IF prev = << >> THEN << >>
    ELSE LET p == Head(prev)
             m == SelectSeq(cur, LAMBDA r : r.loan_id = p.loan_id)
         IN  [i \in 1..Len(m) |->
                 [loan_id |-> p.loan_id,
                  previous_class |-> p.class,
                  current_class |-> m[i].class]]
             \o Merge(Tail(prev), cur)

CountCell(t, r, c) ==
    Len(SelectSeq(t, LAMBDA x : x.previous_class = r /\ x.current_class = c))

CountRow(t, r) == Len(SelectSeq(t, LAMBDA x : x.previous_class = r))

CountCol(t, c) == Len(SelectSeq(t, LAMBDA x : x.current_class = c))

\* mutant of CrossTabCell: normalize='columns'
CrossTabCell_columns(t, r, c) ==
    FMul(FDiv(F(CountCell(t, r, c)), F(CountCol(t, c))), F(100))

\* mutant of CrossTabCell: normalize='all'
CrossTabCell_all(t, r, c) == FMul(FDiv(F(CountCell(t, r, c)), F(Len(t))), F(100))

\* mutant of CrossTabCell: the row share left a fraction of 1
CrossTabCell_fraction(t, r, c) == FDiv(F(CountCell(t, r, c)), F(CountRow(t, r)))

\* one cell of pd.crosstab(previous, current, normalize='index') * 100
CrossTabCell(t, r, c) == FMul(FDiv(F(CountCell(t, r, c)), F(CountRow(t, r))), F(100))

\* the labels of one axis of the crosstab: the distinct values, sorted
CrossTabAxis(values) == SortedAsc(values)

\* "for cls in all_classes: if cls not in ...: ... = 0" appends each missing
\* class, in the order of all_classes, after the labels of the crosstab
EnsureAllClasses(axis) ==
    axis \o SelectSeq(all_classes, LAMBDA c : c \notin Range(axis))

\* mutant of Reindex: the axis left as the loop built it
Reindex_none(axis) == axis

\* ".loc[all_classes, all_classes]" on one axis: the labels of all_classes,
\* in that order (every one of them is on the axis after the loop)
Reindex(axis) == SelectSeq(all_classes, LAMBDA c : c \in Range(axis))

\* the row labels and the column labels of the returned matrix
MigrationIndex(t) ==
    Reindex(EnsureAllClasses(CrossTabAxis({t[i].previous_class : i \in DOMAIN t})))

MigrationColumns(t) ==
    Reindex(EnsureAllClasses(CrossTabAxis({t[i].current_class : i \in DOMAIN t})))

\* the crosstab, the missing classes set to 0, reindexed to all_classes
MigrationTable(t) ==
    LET index == {t[i].previous_class : i \in DOMAIN t}
        columns == {t[i].current_class : i \in DOMAIN t}
        rows == MigrationIndex(t)
        cols == MigrationColumns(t)
    IN  [i \in DOMAIN rows |->
            [j \in DOMAIN cols |->
                IF rows[i] \in index /\ cols[j] \in columns
                THEN CrossTabCell(t, rows[i], cols[j])
                ELSE F(0)]]

\* The crosstab of no transition is a frame without rows and columns, and
\* "migration_matrix.loc[cls] = 0" on a frame without columns raises
\* ValueError (cannot set a frame with no defined columns).
CrossTabIsEmpty(t) == t = << >>

NotCalled ==
    [ret |-> "not_called", current_snapshot |-> 0, previous_snapshot |-> 0,
     df_transitions |-> << >>, index |-> << >>, columns |-> << >>,
     matrix |-> << >>]

calculate_migration_matrix(h) ==
    LET snapshots == SortedReverse(Unique(SnapshotDates(h)))
    IN  IF Len(snapshots) < 2
        THEN [ret |-> "None", current_snapshot |-> 0, previous_snapshot |-> 0,
              df_transitions |-> << >>, index |-> << >>, columns |-> << >>,
              matrix |-> << >>]
        ELSE LET df_current == SnapshotRows(h, snapshots[1])
                 df_previous == SnapshotRows(h, snapshots[2])
                 df_transitions == Merge(df_previous, df_current)
             IN  IF CrossTabIsEmpty(df_transitions)
                 THEN [ret |-> "error",
                       current_snapshot |-> snapshots[1],
                       previous_snapshot |-> snapshots[2],
                       df_transitions |-> df_transitions,
                       index |-> << >>, columns |-> << >>,
                       matrix |-> << >>]
                 ELSE [ret |-> "matrix",
                       current_snapshot |-> snapshots[1],
                       previous_snapshot |-> snapshots[2],
                       df_transitions |-> df_transitions,
                       index |-> MigrationIndex(df_transitions),
                       columns |-> MigrationColumns(df_transitions),
                       matrix |-> MigrationTable(df_transitions)]

(***************************************************************************)
(* State                                                                   *)
(***************************************************************************)
VARIABLES
    df,             \* self.df, the engine's copy of the portfolio
    df_caller,      \* the frame the caller passed to __init__, still the caller's
    df_columns,     \* self.df.columns, the fields the portfolio came with
    risk_appetite,  \* self.risk_appetite
    df_historical,  \* the Historical Series a caller holds
    pc,             \* per caller: position inside calculate_all_kris
    kris,           \* per caller: the local dict kris, as (key, value) pairs
    result,         \* per caller: what the last call of calculate_all_kris gave
    migration       \* the last call of calculate_migration_matrix: what it
                    \* gave (ret) and its locals

vars ==
    <<df, df_caller, df_columns, risk_appetite, df_historical, pc, kris, result, migration>>

Callers == 1..NumCallers

NoResult == [status |-> "none", tree |-> << >>]

Keys(tree) == {tree[i].key : i \in DOMAIN tree}

\* tree[key]
Get(tree, key) == tree[CHOOSE i \in DOMAIN tree : tree[i].key = key].value

\* kris[key] = value
Put(tree, key, value) ==
    IF key \in Keys(tree)
    THEN [i \in DOMAIN tree |-> IF tree[i].key = key THEN [key |-> key, value |-> value] ELSE tree[i]]
    ELSE Append(tree, [key |-> key, value |-> value])

(***************************************************************************)
(* Inputs                                                                  *)
(***************************************************************************)
Loan(id, seg, cls, dpd, bal) ==
    [loan_id |-> id,
     customer_segment |-> seg,
     province |-> seg,
     industry |-> seg,
     loan_type |-> 1,
     vintage |-> 1,
     months_on_book |-> 12,
     interest_rate_pct |-> 10,
     outstanding_balance_vnd_mil |-> bal,
     days_past_due |-> dpd,
     loan_classification |-> cls]

\* lexicographic order of two loan descriptions (seg, cls, dpd, bal)
LexLeq(a, b) ==
    \/ a = b
    \/ \E k \in DOMAIN a : a[k] < b[k] /\ \A j \in 1..(k - 1) : a[j] = b[j]

\* The portfolios of at most MaxLoans loans over a set of (seg, cls, dpd, bal).
\* A portfolio is an order-irrelevant collection: one row order per collection.
Portfolios(bodies) ==
    {[i \in DOMAIN f |-> Loan(i, f[i][1], f[i][2], f[i][3], f[i][4])] :
        f \in {g \in UNION {[1..n -> bodies] : n \in 0..MaxLoans} :
                  \A i \in DOMAIN g : \A j \in DOMAIN g : i < j => LexLeq(g[i], g[j])}}

\* The portfolios of at most MaxLoans loans over a set of (seg, cls, dpd, bal),
\* in every row order.
OrderedPortfolios(bodies) ==
    {[i \in DOMAIN f |-> Loan(i, f[i][1], f[i][2], f[i][3], f[i][4])] :
        f \in UNION {[1..n -> bodies] : n \in 0..MaxLoans}}

\* One performing loan per category (segment = province = industry = i),
\* for 1..MaxCats categories, the balances drawn from bals.
CategoryPortfolios(bals) ==
    {[i \in DOMAIN f |-> Loan(i, i, 1, 0, f[i])] :
        f \in UNION {[1..n -> bals] : n \in 1..MaxCats}}

\* The portfolios of at most MaxLoans loans over a set of (months_on_book,
\* cls, dpd, bal), one row order per collection.
SeasonedPortfolios(bodies) ==
    {[i \in DOMAIN f |->
         [Loan(i, 1, f[i][2], f[i][3], f[i][4]) EXCEPT !.months_on_book = f[i][1]]] :
        f \in {g \in UNION {[1..n -> bodies] : n \in 0..MaxLoans} :
                  \A i \in DOMAIN g : \A j \in DOMAIN g : i < j => LexLeq(g[i], g[j])}}

\* the frame d with the columns cols only
WithColumns(d, cols) ==
    [i \in DOMAIN d |-> [f \in (DOMAIN d[i]) \cap cols |-> d[i][f]]]

\* The portfolios of at most MaxLoans performing loans over a set of
\* (customer_segment, industry, province, bal), the loan_type as the
\* industry, one row order per collection.
CategorisedPortfolios(bodies) ==
    {[i \in DOMAIN f |->
         [Loan(i, f[i][1], 1, 0, f[i][4]) EXCEPT !.industry = f[i][2],
                                                 !.province = f[i][3],
                                                 !.loan_type = f[i][2]]] :
        f \in {g \in UNION {[1..n -> bodies] : n \in 0..MaxLoans} :
                  \A i \in DOMAIN g : \A j \in DOMAIN g : i < j => LexLeq(g[i], g[j])}}

\* Seven categories of balances 4, 3, 3, 3, 3, 2, 2: the squared percentage
\* shares sum to 1500, the threshold between Low and Moderate.
ThresholdPortfolio ==
    [i \in 1..7 |-> Loan(i, i, 1, 0, <<4, 3, 3, 3, 3, 2, 2>>[i])]

HistRecord(date, id, cls) ==
    [snapshot_date |-> date, loan_id |-> id, loan_classification |-> cls]

\* the series of at most MaxHist records over the given dates, ids and classes
HistSeries(dates, ids, classes) ==
    UNION {[1..n -> {HistRecord(dt, id, cls) : dt \in dates, id \in ids, cls \in classes}] :
              n \in 0..MaxHist}

\* mutant of EngineFrame: self.df = df, the caller's frame itself
EngineFrame_alias(own, callers) == callers

\* self.df once the caller's frame has become callers: df.copy() copied the
\* data, the engine's frame own is no view of the caller's
EngineFrame(own, callers) == own

InitEngine ==
    /\ df_caller = df
    /\ risk_appetite = RiskAppetite
    /\ pc = [c \in Callers |-> "idle"]
    /\ kris = [c \in Callers |-> << >>]
    /\ result = [c \in Callers |-> NoResult]
    /\ migration = NotCalled

Init ==
    /\ df \in Portfolios({1} \X (1..5) \X {0, 90} \X {0, 100, 300})
    /\ df_columns = PortfolioColumns
    /\ df_historical = <<HistRecord(1, 1, 1), HistRecord(2, 1, 2)>>
    /\ InitEngine

(***************************************************************************)
(* calculate_all_kris, one step per statement                              *)
(***************************************************************************)
\* mutant of CallAllKris: one dictionary of the instance, emptied at entry
CallAllKris_shared(c) ==
    /\ pc[c] = "idle"
    /\ kris' = [c2 \in Callers |-> << >>]
    /\ pc' = [pc EXCEPT ![c] = "npl_metrics"]
    /\ UNCHANGED <<df, df_caller, df_columns, risk_appetite, df_historical, result, migration>>

CallAllKris(c) ==
    /\ pc[c] = "idle"
    /\ kris' = [kris EXCEPT ![c] = << >>]
    /\ pc' = [pc EXCEPT ![c] = "npl_metrics"]
    /\ UNCHANGED <<df, df_caller, df_columns, risk_appetite, df_historical, result, migration>>

\* kris[key] = value, then on to the next statement
Store(c, key, value, next) ==
    /\ pc[c] = key
    /\ kris' = [kris EXCEPT ![c] = Put(kris[c], key, value)]
    /\ pc' = [pc EXCEPT ![c] = next]
    /\ UNCHANGED <<df, df_caller, df_columns, risk_appetite, df_historical, result, migration>>

\* mutant of Raise: the exception caught, the groups computed so far returned
Raise_partial(c, key) ==
    /\ pc[c] = key
    /\ kris' = [kris EXCEPT ![c] = << >>]
    /\ pc' = [pc EXCEPT ![c] = "idle"]
    /\ result' = [result EXCEPT ![c] = [status |-> "ok", tree |-> kris[c]]]
    /\ UNCHANGED <<df, df_caller, df_columns, risk_appetite, df_historical, migration>>

\* an exception leaves calculate_all_kris: the caller gets no tree
Raise(c, key) ==
    /\ pc[c] = key
    /\ kris' = [kris EXCEPT ![c] = << >>]
    /\ pc' = [pc EXCEPT ![c] = "idle"]
    /\ result' = [result EXCEPT ![c] = [status |-> "error", tree |-> << >>]]
    /\ UNCHANGED <<df, df_caller, df_columns, risk_appetite, df_historical, migration>>

NplStep(c) ==
    IF KeyError(NplColumns, df_columns)
    THEN Raise(c, "npl_metrics")
    ELSE Store(c, "npl_metrics", calculate_npl_metrics(df, risk_appetite), "par_metrics")

ParStep(c) ==
    IF KeyError(ParColumns, df_columns)
    THEN Raise(c, "par_metrics")
    ELSE Store(c, "par_metrics", calculate_par_metrics(df, risk_appetite),
               "quality_distribution")

QualityStep(c) ==
    IF KeyError(QualityColumns, df_columns)
    THEN Raise(c, "quality_distribution")
    ELSE Store(c, "quality_distribution", calculate_quality_distribution(df),
               "concentration_risk")

ConcentrationStep(c) ==
    IF KeyError(ConcentrationColumns, df_columns) \/ ConcentrationRaises(df)
    THEN Raise(c, "concentration_risk")
    ELSE Store(c, "concentration_risk", calculate_concentration_risk(df, risk_appetite),
               "vintage_analysis")

VintageStep(c) ==
    IF KeyError(VintageColumns, df_columns)
    THEN Raise(c, "vintage_analysis")
    ELSE Store(c, "vintage_analysis", calculate_vintage_analysis(df), "segment_performance")

SegmentStep(c) ==
    IF KeyError(SegmentColumns, df_columns)
    THEN Raise(c, "segment_performance")
    ELSE Store(c, "segment_performance", calculate_segment_performance(df), "early_warning")

\* mutant of EarlyWarningStep: the new loans kept in self.df itself
EarlyWarningStep_inplace(c) ==
    /\ pc[c] = "early_warning"
    /\ kris' = [kris EXCEPT ![c] =
           Put(kris[c], "early_warning", calculate_early_warning_indicators(df))]
    /\ pc' = [pc EXCEPT ![c] = "return"]
    /\ df' = SelectSeq(df, LAMBDA l : l.months_on_book < 6)
    /\ UNCHANGED <<df_caller, df_columns, risk_appetite, df_historical, result, migration>>

EarlyWarningStep(c) ==
    IF KeyError(EarlyWarningColumns, df_columns)
    THEN Raise(c, "early_warning")
    ELSE Store(c, "early_warning", calculate_early_warning_indicators(df), "return")

\* mutant of ReturnKris: the migration matrix bundled into the tree
ReturnKris_bundled(c) ==
    /\ pc[c] = "return"
    /\ result' = [result EXCEPT ![c] =
           [status |-> "ok",
            tree |-> Put(kris[c], "migration_matrix",
                         calculate_migration_matrix(df_historical).matrix)]]
    /\ kris' = [kris EXCEPT ![c] = << >>]
    /\ pc' = [pc EXCEPT ![c] = "idle"]
    /\ UNCHANGED <<df, df_caller, df_columns, risk_appetite, df_historical, migration>>

ReturnKris(c) ==
    /\ pc[c] = "return"
    /\ result' = [result EXCEPT ![c] = [status |-> "ok", tree |-> kris[c]]]
    /\ kris' = [kris EXCEPT ![c] = << >>]
    /\ pc' = [pc EXCEPT ![c] = "idle"]
    /\ UNCHANGED <<df, df_caller, df_columns, risk_appetite, df_historical, migration>>

\* mutant of MigrationMatrix: the series cut in place to its latest snapshot
MigrationMatrix_inplace ==
    /\ migration' = calculate_migration_matrix(df_historical)
    /\ df_historical' =
           SelectSeq(df_historical,
                     LAMBDA r : r.snapshot_date = calculate_migration_matrix(df_historical).current_snapshot)
    /\ UNCHANGED <<df, df_caller, df_columns, risk_appetite, pc, kris, result>>

MigrationMatrix ==
    /\ migration' = calculate_migration_matrix(df_historical)
    /\ UNCHANGED <<df, df_caller, df_columns, risk_appetite, df_historical, pc, kris, result>>

\* calculate_all_kris run from entry to return with no other caller: the
\* seven calculations in the order of the statements, or the first exception
calculate_all_kris(d, cols, ra) ==
    IF \/ KeyError(NplColumns, cols)
       \/ KeyError(ParColumns, cols)
       \/ KeyError(QualityColumns, cols)
       \/ KeyError(ConcentrationColumns, cols) \/ ConcentrationRaises(d)
       \/ KeyError(VintageColumns, cols)
       \/ KeyError(SegmentColumns, cols)
       \/ KeyError(EarlyWarningColumns, cols)
    THEN [status |-> "error", tree |-> << >>]
    ELSE [status |-> "ok",
          tree |-> <<[key |-> "npl_metrics", value |-> calculate_npl_metrics(d, ra)],
                     [key |-> "par_metrics", value |-> calculate_par_metrics(d, ra)],
                     [key |-> "quality_distribution",
                      value |-> calculate_quality_distribution(d)],
                     [key |-> "concentration_risk",
                      value |-> calculate_concentration_risk(d, ra)],
                     [key |-> "vintage_analysis", value |-> calculate_vintage_analysis(d)],
                     [key |-> "segment_performance",
                      value |-> calculate_segment_performance(d)],
                     [key |-> "early_warning",
                      value |-> calculate_early_warning_indicators(d)]>>]

\* what a caller may do to its frame d in one statement: drop the last
\* record, add a record, edit a field of a record
CallerEdits(d) ==
    (IF d # << >> THEN {SubSeq(d, 1, Len(d) - 1)} ELSE {})
        \cup (IF Len(d) < MaxLoans
              THEN {Append(d, Loan(Len(d) + 1, 1, 5, 90, 100))}
              ELSE {})
        \cup {[d EXCEPT ![i].loan_classification = 6 - d[i].loan_classification] :
                 i \in DOMAIN d}

\* the caller changes its own frame after the engine was constructed from it
MutateCaller ==
    /\ \E d \in CallerEdits(df_caller) : df_caller' = d
    /\ df' = EngineFrame(df, df_caller')
    /\ UNCHANGED <<df_columns, risk_appetite, df_historical, pc, kris, result, migration>>

\* the caller of the single-threaded report
MainCaller == 1

Next ==
    \/ CallAllKris(MainCaller)
    \/ NplStep(MainCaller)
    \/ ParStep(MainCaller)
    \/ QualityStep(MainCaller)
    \/ ConcentrationStep(MainCaller)
    \/ VintageStep(MainCaller)
    \/ SegmentStep(MainCaller)
    \/ EarlyWarningStep(MainCaller)
    \/ ReturnKris(MainCaller)
    \/ MigrationMatrix

Spec == Init /\ [][Next]_vars

(***************************************************************************)
(* The result tree on portfolios at the risk-appetite limits               *)
(***************************************************************************)
InitAppetite ==
    /\ df \in Portfolios({1} \X {1, 5} \X {0, 30, 90} \X {3, 5, 7, 95, 97, 193})
              \cup CategoryPortfolios({1, 2})
    /\ df_columns = PortfolioColumns
    /\ df_historical = << >>
    /\ InitEngine

NextKris ==
    \/ CallAllKris(MainCaller)
    \/ NplStep(MainCaller)
    \/ ParStep(MainCaller)
    \/ QualityStep(MainCaller)
    \/ ConcentrationStep(MainCaller)
    \/ VintageStep(MainCaller)
    \/ SegmentStep(MainCaller)
    \/ EarlyWarningStep(MainCaller)
    \/ ReturnKris(MainCaller)

SpecAppetite == InitAppetite /\ [][NextKris]_vars

(***************************************************************************)
(* The result tree on portfolios in every row order, a classification      *)
(* outside the five classes included                                       *)
(***************************************************************************)
InitQuality ==
    /\ df \in OrderedPortfolios({1} \X (0..5) \X {0} \X {0, 100, 300})
    /\ df_columns = PortfolioColumns
    /\ df_historical = << >>
    /\ InitEngine

SpecQuality == InitQuality /\ [][NextKris]_vars

(***************************************************************************)
(* The result tree on portfolios of one to MaxCats categories, at the      *)
(* thresholds of the concentration level                                   *)
(***************************************************************************)
InitConcentration ==
    /\ df \in CategoryPortfolios({1, 2})
              \cup Portfolios({1, 2} \X {1} \X {0} \X {0, 1, 3})
              \cup {ThresholdPortfolio}
    /\ df_columns = PortfolioColumns
    /\ df_historical = << >>
    /\ InitEngine

SpecConcentration == InitConcentration /\ [][NextKris]_vars

(***************************************************************************)
(* The result tree on portfolios at the boundaries of the PAR buckets      *)
(***************************************************************************)
InitPar ==
    /\ df \in Portfolios({1} \X {1} \X {0, 29, 30, 59, 60, 89, 90, 179, 180}
                             \X {0, 100, 300})
    /\ df_columns = PortfolioColumns
    /\ df_historical = << >>
    /\ InitEngine

SpecPar == InitPar /\ [][NextKris]_vars

(***************************************************************************)
(* The result tree on portfolios at the boundaries of the early-warning    *)
(* predicates                                                              *)
(***************************************************************************)
InitEarlyWarning ==
    /\ df \in SeasonedPortfolios({5, 6} \X {1, 2} \X {0, 1, 29, 30} \X {100, 300})
    /\ df_columns = PortfolioColumns
    /\ df_historical = << >>
    /\ InitEngine

SpecEarlyWarning == InitEarlyWarning /\ [][NextKris]_vars

(***************************************************************************)
(* The result tree on portfolios that lack one column                      *)
(***************************************************************************)
InitFields ==
    /\ df_columns \in {PortfolioColumns} \cup {PortfolioColumns \ {f} : f \in PortfolioColumns}
    /\ df \in {WithColumns(d, df_columns) :
                  d \in Portfolios({1} \X {1, 5} \X {0, 90} \X {100})}
    /\ df_historical = << >>
    /\ InitEngine

SpecFields == InitFields /\ [][NextKris]_vars

(***************************************************************************)
(* The result tree on portfolios with categorical values outside the       *)
(* vocabularies of the generator (8 and 9)                                 *)
(***************************************************************************)
InitCategories ==
    /\ df \in CategorisedPortfolios({1, 8, 9} \X {1, 9} \X {1, 9} \X {100, 300})
    /\ df_columns = PortfolioColumns
    /\ df_historical = << >>
    /\ InitEngine

SpecCategories == InitCategories /\ [][NextKris]_vars

(***************************************************************************)
(* The result tree on portfolios of two segments (province and industry as *)
(* the segment) with loans of zero balance and loans 90 days past due in   *)
(* every class                                                             *)
(***************************************************************************)
InitBreakdown ==
    /\ df \in Portfolios({1, 2} \X {1, 3, 5} \X {0, 90} \X {0, 100})
    /\ df_columns = PortfolioColumns
    /\ df_historical = << >>
    /\ InitEngine

SpecBreakdown == InitBreakdown /\ [][NextKris]_vars

(***************************************************************************)
(* The result tree while the caller goes on changing the frame it passed   *)
(* to the constructor                                                      *)
(***************************************************************************)
InitCopy ==
    /\ df \in Portfolios({1} \X {1, 5} \X {0} \X {100})
    /\ df_columns = PortfolioColumns
    /\ df_historical = << >>
    /\ InitEngine

NextCopy ==
    \/ NextKris
    \/ MutateCaller

SpecCopy == InitCopy /\ [][NextCopy]_vars

(***************************************************************************)
(* One engine shared by NumCallers concurrent callers: every interleaving  *)
(* of the statements of their calls                                        *)
(***************************************************************************)
InitConcurrent ==
    /\ df \in Portfolios({<<1, 5, 90, 100>>})
    /\ df_columns = PortfolioColumns
    /\ df_historical = <<HistRecord(1, 1, 1), HistRecord(2, 1, 2)>>
    /\ InitEngine

NextConcurrent ==
    \/ \E c \in Callers :
          \/ CallAllKris(c)
          \/ NplStep(c)
          \/ ParStep(c)
          \/ QualityStep(c)
          \/ ConcentrationStep(c)
          \/ VintageStep(c)
          \/ SegmentStep(c)
          \/ EarlyWarningStep(c)
          \/ ReturnKris(c)
    \/ MigrationMatrix

SpecConcurrent == InitConcurrent /\ [][NextConcurrent]_vars

(***************************************************************************)
(* The migration matrix over all bounded Historical Series                 *)
(***************************************************************************)
\* Three snapshot dates, two loan ids (a loan_id may repeat within a
\* snapshot), the classes 1 and 2 and a classification 6 outside the
\* five-class enumeration.
InitMigration ==
    /\ df = << >>
    /\ df_columns = PortfolioColumns
    /\ df_historical \in HistSeries({1, 2, 3}, {1, 2}, {1, 2, 6})
    /\ InitEngine

NextMigration == MigrationMatrix

SpecMigration == InitMigration /\ [][NextMigration]_vars


(***************************************************************************)
(* Properties                                                              *)
(***************************************************************************)
\* every payload of a metric group a caller holds: in the tree under
\* construction and in the tree returned
Payloads(key) ==
    {Get(kris[c], key) : c \in {x \in Callers : key \in Keys(kris[x])}}
        \cup {Get(result[c].tree, key) :
                 c \in {x \in Callers : result[x].status = "ok" /\ key \in Keys(result[x].tree)}}

RECURSIVE BalanceOf(_)
BalanceOf(S) ==
    IF S = {} THEN 0
    ELSE LET i == CHOOSE x \in S : TRUE
         IN  df[i].outstanding_balance_vnd_mil + BalanceOf(S \ {i})

TotalBalance == BalanceOf(DOMAIN df)

\* the loans of the NPL-membership predicate: Class4/Class5 or DPD >= 90
NplLoans ==
    {i \in DOMAIN df : df[i].loan_classification \in {4, 5} \/ df[i].days_past_due >= 90}

\* the float x is the exact quotient num / den (den > 0)
IsQuotient(x, num, den) == x.d > 0 /\ x.n * den = num * x.d

\* C1: the headline npl_count and npl_balance count exactly the loans that
\* are Class4/Class5 or have days_past_due >= 90, npl_balance_ratio is
\* npl_balance / total_balance * 100, and the portfolio {100/Class1/DPD<90,
\* 300/Class5} gives npl_balance 300, total 400, ratio 75.
C1_NplMembership ==
    \A m \in Payloads("npl_metrics") :
        /\ m.npl_count = Cardinality(NplLoans)
        /\ m.npl_balance = BalanceOf(NplLoans)
        /\ m.total_balance = TotalBalance
        /\ TotalBalance > 0 =>
              IsQuotient(m.npl_balance_ratio, 100 * BalanceOf(NplLoans), TotalBalance)
        /\ (/\ Len(df) = 2
            /\ \E i, j \in DOMAIN df :
                  /\ df[i].outstanding_balance_vnd_mil = 100
                  /\ df[i].loan_classification = 1
                  /\ df[i].days_past_due < 90
                  /\ df[j].outstanding_balance_vnd_mil = 300
                  /\ df[j].loan_classification = 5)
           => /\ m.npl_balance = 300
              /\ m.total_balance = 400
              /\ m.npl_balance_ratio = F(75)

\* C1 witness: a returned tree for a portfolio holding a loan classified
\* Class1..Class3 with days_past_due >= 90 and a positive balance
C1_Witness ==
    /\ result[MainCaller].status = "ok"
    /\ \E i \in DOMAIN df :
          /\ df[i].loan_classification \in {1, 2, 3}
          /\ df[i].days_past_due >= 90
          /\ df[i].outstanding_balance_vnd_mil > 0
    /\ Get(result[MainCaller].tree, "npl_metrics").npl_count >= 1

\* the ratio entries of a breakdown table whose group balance is zero
ZeroGroupRatiosAreZero(table, field) ==
    \A i \in DOMAIN table : table[i].total_balance = 0 => table[i][field] = F(0)

\* C2: every ratio is 0 when its denominator, the total outstanding balance
\* of the portfolio or of the group, is zero.
C2_ZeroDenominatorRatioIsZero ==
    /\ \A m \in Payloads("npl_metrics") :
          /\ TotalBalance = 0 =>
                /\ m.npl_balance_ratio = F(0)
                /\ m.risk_appetite_utilization = F(0)
          /\ ZeroGroupRatiosAreZero(m.by_segment, "npl_ratio")
          /\ ZeroGroupRatiosAreZero(m.by_product, "npl_ratio")
          /\ ZeroGroupRatiosAreZero(m.by_industry, "npl_ratio")
          /\ ZeroGroupRatiosAreZero(m.by_province, "npl_ratio")
    /\ \A m \in Payloads("par_metrics") :
          TotalBalance = 0 =>
             /\ m.par30.ratio = F(0)
             /\ m.par60.ratio = F(0)
             /\ m.par90.ratio = F(0)
             /\ m.par180.ratio = F(0)
    /\ \A m \in Payloads("early_warning") :
          TotalBalance = 0 =>
             /\ m.early_delinquency.ratio = F(0)
             /\ m.watch_list.ratio = F(0)
             /\ m.new_loans_issues.ratio = F(0)
    /\ \A m \in Payloads("quality_distribution") :
          TotalBalance = 0 => \A i \in DOMAIN m : m[i].balance_pct = F(0)
    /\ \A m \in Payloads("concentration_risk") :
          TotalBalance = 0 =>
             /\ \A i \in DOMAIN m.industry.details : m.industry.details[i].pct = F(0)
             /\ \A i \in DOMAIN m.province.details : m.province.details[i].pct = F(0)
             /\ \A i \in DOMAIN m.product.details : m.product.details[i].pct = F(0)
             /\ \A i \in DOMAIN m.segment.details : m.segment.details[i].pct = F(0)

\* the largest balance of one category of a dimension
TopBalance(col) ==
    Max({BalanceOf({i \in DOMAIN df : df[i][col] = k}) : k \in {df[i][col] : i \in DOMAIN df}})

\* the balance of the loans with days_past_due >= bucket
ParBalance(bucket) == BalanceOf({i \in DOMAIN df : df[i].days_past_due >= bucket})

\* value < limit for value = part / total * 100 and limit = num / den:
\* false when the value is not a number
ValueBelowLimit(part, total, num, den) == total > 0 /\ 100 * part * den < num * total

\* C3: each reported within_risk_appetite flag equals (value < limit), with
\* strict inequality: NPL balance ratio vs 3.0, PAR30 ratio vs 5.0, PAR90
\* ratio vs 3.5, top industry share vs 25.0, top province share vs 40.0.
C3_WithinAppetiteIsStrict ==
    /\ \A m \in Payloads("npl_metrics") :
          m.within_risk_appetite = ValueBelowLimit(BalanceOf(NplLoans), TotalBalance, 3, 1)
    /\ \A m \in Payloads("par_metrics") :
          /\ m.par30.within_risk_appetite = ValueBelowLimit(ParBalance(30), TotalBalance, 5, 1)
          /\ m.par90.within_risk_appetite = ValueBelowLimit(ParBalance(90), TotalBalance, 7, 2)
    /\ \A m \in Payloads("concentration_risk") :
          /\ m.industry.within_risk_appetite =
                ValueBelowLimit(TopBalance("industry"), TotalBalance, 25, 1)
          /\ m.province.within_risk_appetite =
                ValueBelowLimit(TopBalance("province"), TotalBalance, 40, 1)

\* C3 witness: a returned tree whose NPL balance ratio equals its limit 3.0
\* exactly and is reported as not within risk appetite
C3_Witness ==
    /\ result[MainCaller].status = "ok"
    /\ Get(result[MainCaller].tree, "npl_metrics").npl_balance_ratio = F(3)
    /\ ~Get(result[MainCaller].tree, "npl_metrics").within_risk_appetite

\* C4: npl_balance_ratio is 0 whenever no loan satisfies the NPL-membership
\* predicate, for every portfolio, the empty and the zero-balance ones too.
C4_NoNplLoanRatioZero ==
    \A m \in Payloads("npl_metrics") : NplLoans = {} => m.npl_balance_ratio = F(0)

ResultTreeKeys ==
    {"npl_metrics", "par_metrics", "quality_distribution", "concentration_risk",
     "vintage_analysis", "segment_performance", "early_warning"}

\* C5: every tree calculate_all_kris returns has exactly the seven keys
\* npl_metrics .. early_warning, each once; migration_matrix is never a key
\* of a tree, returned or under construction.
C5_ResultTreeKeySet ==
    \A c \in Callers :
        /\ result[c].status = "ok" =>
              /\ Keys(result[c].tree) = ResultTreeKeys
              /\ Len(result[c].tree) = 7
        /\ "migration_matrix" \notin Keys(kris[c]) \cup Keys(result[c].tree)
        /\ Keys(kris[c]) \subseteq ResultTreeKeys

\* C5 witness: a tree was returned and a migration matrix was computed by
\* its own call
C5_Witness ==
    /\ result[MainCaller].status = "ok"
    /\ migration.ret = "matrix"


\* the distinct snapshot dates of the Historical Series
HistDates == {df_historical[i].snapshot_date : i \in DOMAIN df_historical}

\* the records of the Historical Series of one snapshot date
HistRows(date) == {i \in DOMAIN df_historical : df_historical[i].snapshot_date = date}

\* the most recent snapshot date, and the most recent one before it
LatestDate == CHOOSE d \in HistDates : \A e \in HistDates : e <= d

PreviousDate ==
    CHOOSE d \in HistDates \ {LatestDate} : \A e \in HistDates \ {LatestDate} : e <= d

\* the pairs (previous record, current record) of one loan_id
JoinedPairs ==
    {p \in HistRows(PreviousDate) \X HistRows(LatestDate) :
        df_historical[p[1]].loan_id = df_historical[p[2]].loan_id}

\* of the joined pairs jp, those whose previous class is r
JoinedFrom(jp, r) == {p \in jp : df_historical[p[1]].loan_classification = r}

\* of the joined pairs jp, those from previous class r to current class c
JoinedFromTo(jp, r, c) ==
    {p \in JoinedFrom(jp, r) : df_historical[p[2]].loan_classification = c}

LoanIdsOf(rows) == {df_historical[i].loan_id : i \in rows}

RowSum(i) == FSum(migration.matrix[i])

\* C6: calculate_migration_matrix returns None whenever the Historical
\* Series has fewer than two distinct snapshot dates, however many records
\* carry the one date.
C6_InsufficientHistoryIsNone ==
    (migration.ret # "not_called" /\ Cardinality(HistDates) < 2) => migration.ret = "None"

\* C6 witness: a call on a series of several records, all of one date
C6_Witness ==
    /\ migration.ret = "None"
    /\ Len(df_historical) >= 2
    /\ Cardinality(HistDates) = 1

\* C7: with at least two distinct snapshot dates, current is the greatest
\* snapshot date and previous the second-greatest distinct one, whatever
\* the order of the records.
C7_TwoMostRecentSnapshots ==
    (migration.ret # "not_called" /\ Cardinality(HistDates) >= 2) =>
        /\ migration.ret # "None"
        /\ migration.current_snapshot \in HistDates
        /\ \A d \in HistDates : d <= migration.current_snapshot
        /\ migration.previous_snapshot \in HistDates
        /\ migration.previous_snapshot < migration.current_snapshot
        /\ \A d \in HistDates :
              d < migration.current_snapshot => d <= migration.previous_snapshot

\* C7 witness: a matrix from a series of three dates whose records are in
\* neither ascending nor descending date order
C7_Witness ==
    /\ migration.ret = "matrix"
    /\ Cardinality(HistDates) = 3
    /\ Len(df_historical) = 3
    /\ df_historical[1].snapshot_date < df_historical[2].snapshot_date
    /\ df_historical[3].snapshot_date < df_historical[2].snapshot_date

\* C8: the matrix counts exactly the loans whose loan_id is in both the
\* previous and the current snapshot; a loan of one snapshot only is in no
\* transition, so in no cell count and in no row denominator.
C8_InnerJoinOnLoanId ==
    migration.ret = "matrix" =>
        LET jp == JoinedPairs
        IN  /\ {migration.df_transitions[k].loan_id : k \in DOMAIN migration.df_transitions}
                  = LoanIdsOf(HistRows(PreviousDate)) \cap LoanIdsOf(HistRows(LatestDate))
            /\ \A id \in LoanIdsOf(DOMAIN df_historical) :
                  Cardinality({k \in DOMAIN migration.df_transitions :
                                  migration.df_transitions[k].loan_id = id})
                     = Cardinality({p \in jp : df_historical[p[1]].loan_id = id})
            /\ \A i \in DOMAIN all_classes :
                  JoinedFrom(jp, all_classes[i]) = {} =>
                     \A j \in DOMAIN all_classes : migration.matrix[i][j] = F(0)

\* C8 witness: a matrix with a transition, where the previous snapshot also
\* holds a loan absent from the current one, the only loan of its class
C8_Witness ==
    /\ migration.ret = "matrix"
    /\ migration.df_transitions # << >>
    /\ \E i \in HistRows(PreviousDate) :
          /\ df_historical[i].loan_id \notin LoanIdsOf(HistRows(LatestDate))
          /\ df_historical[i].loan_classification \in Range(all_classes)
          /\ JoinedFrom(JoinedPairs, df_historical[i].loan_classification) = {}

\* C9: cell (r, c) is (joined loans with previous class r and current class
\* c) / (joined loans with previous class r) * 100, a row without joined
\* loans is all zero; S1 = {A: Class1}, S2 = {A: Class2} gives 100 in row
\* Class1, column Class2, and 0 everywhere else.
C9_CellIsRowShare ==
    migration.ret = "matrix" =>
        /\ LET jp == JoinedPairs
           IN  \A i \in DOMAIN all_classes :
                  LET from == JoinedFrom(jp, all_classes[i])
                  IN  \A j \in DOMAIN all_classes :
                         IF from = {}
                         THEN migration.matrix[i][j] = F(0)
                         ELSE IsQuotient(migration.matrix[i][j],
                                         100 * Cardinality(JoinedFromTo(jp, all_classes[i],
                                                                        all_classes[j])),
                                         Cardinality(from))
        /\ (/\ Len(df_historical) = 2
            /\ \E a, b \in DOMAIN df_historical :
                  /\ df_historical[a].snapshot_date < df_historical[b].snapshot_date
                  /\ df_historical[a].loan_id = df_historical[b].loan_id
                  /\ df_historical[a].loan_classification = 1
                  /\ df_historical[b].loan_classification = 2)
           => \A i \in 1..5 : \A j \in 1..5 :
                 migration.matrix[i][j] = IF i = 1 /\ j = 2 THEN F(100) ELSE F(0)

\* C9 witness: a matrix with a row split over two columns
C9_Witness ==
    /\ migration.ret = "matrix"
    /\ \E i \in 1..5 : \E j \in 1..5 : \E k \in 1..5 :
          j # k /\ migration.matrix[i][j] = F(50) /\ migration.matrix[i][k] = F(50)

\* C10 as stated: every row of a returned matrix sums to 100.
C10_EveryRowSumsTo100 ==
    migration.ret = "matrix" => \A i \in DOMAIN all_classes : RowSum(i) = F(100)

\* the classifications of the two most recent snapshots are among the five
KnownClassesOnly ==
    \A i \in HistRows(PreviousDate) \cup HistRows(LatestDate) :
        df_historical[i].loan_classification \in Range(all_classes)

\* C10 amended: when the classifications of the two snapshots are among the
\* five classes, the row of every class that is the previous class of a
\* loan present in both snapshots sums to 100, and every other row to 0.
C10_PopulatedRowsSumTo100 ==
    (migration.ret = "matrix" /\ KnownClassesOnly) =>
        LET jp == JoinedPairs
        IN  \A i \in DOMAIN all_classes :
               RowSum(i) = IF JoinedFrom(jp, all_classes[i]) = {} THEN F(0) ELSE F(100)

\* C10 witness: a matrix with two populated rows next to empty ones
C10_Witness ==
    /\ migration.ret = "matrix"
    /\ KnownClassesOnly
    /\ \E i, j \in DOMAIN all_classes :
          i # j /\ RowSum(i) = F(100) /\ RowSum(j) = F(100)
    /\ \E i \in DOMAIN all_classes : RowSum(i) = F(0)

\* of the joined pairs jp, those whose current class is c
JoinedTo(jp, c) == {p \in jp : df_historical[p[2]].loan_classification = c}

\* C11: a returned matrix has as row labels and as column labels exactly the
\* five classes in severity order, whatever classes the data hold and in
\* whatever order; the row of a class that is the previous class of no
\* joined loan is all zero, the column of a class that is the current class
\* of no joined loan is all zero, and no cell is NaN.
C11_AxesAreTheFiveClasses ==
    migration.ret = "matrix" =>
        LET jp == JoinedPairs
        IN  /\ migration.index = <<1, 2, 3, 4, 5>>
            /\ migration.columns = <<1, 2, 3, 4, 5>>
            /\ DOMAIN migration.matrix = 1..5
            /\ \A i \in 1..5 :
                  /\ DOMAIN migration.matrix[i] = 1..5
                  /\ \A j \in 1..5 : IsFinite(migration.matrix[i][j])
                  /\ JoinedFrom(jp, i) = {} =>
                        \A j \in 1..5 : migration.matrix[i][j] = F(0)
                  /\ JoinedTo(jp, i) = {} =>
                        \A j \in 1..5 : migration.matrix[j][i] = F(0)

\* C11 witness: a matrix from data that hold one of the five classes and a
\* class outside them, the records of the more severe class first
C11_Witness ==
    /\ migration.ret = "matrix"
    /\ Len(df_historical) >= 2
    /\ df_historical[1].loan_classification > df_historical[2].loan_classification
    /\ \E p \in JoinedPairs :
          /\ df_historical[p[1]].loan_classification = 2
          /\ df_historical[p[2]].loan_classification = 6
    /\ \E i \in 1..5 : \A j \in 1..5 : migration.matrix[i][j] = F(0)

\* the classifications of the rows of a quality distribution, in row order
ClassesOf(q) == [i \in DOMAIN q |-> q[i].classification]

\* C12: the rows of quality_distribution hold every classification of the
\* portfolio exactly once, and the rows of the five classes are in severity
\* order, Class1 first: a less severe class is never after a more severe
\* one, whatever the order of the loans in the portfolio.
C12_RowsInSeverityOrder ==
    \A q \in Payloads("quality_distribution") :
        /\ Range(ClassesOf(q)) = {df[i].loan_classification : i \in DOMAIN df}
        /\ \A i, j \in DOMAIN q :
              i < j =>
                 /\ q[i].classification # q[j].classification
                 /\ (q[i].classification \in 1..5 /\ q[j].classification \in 1..5)
                       => q[i].classification < q[j].classification

\* C12 witness: a tree returned for a portfolio that lists a more severe
\* class before a less severe one
C12_Witness ==
    /\ result[MainCaller].status = "ok"
    /\ Len(df) >= 2
    /\ df[1].loan_classification = 5
    /\ df[2].loan_classification = 2
    /\ ClassesOf(Get(result[MainCaller].tree, "quality_distribution")) = <<2, 5>>

\* the sum of one float column of a quality distribution, NaN not skipped
RECURSIVE ColumnTotal(_, _)
ColumnTotal(q, col) ==
    IF q = << >> THEN F(0) ELSE FAdd(Head(q)[col], ColumnTotal(Tail(q), col))

\* C13 as stated: for every portfolio the count_pct values of
\* quality_distribution sum to 100 and the balance_pct values sum to 100.
C13_PercentagesSumTo100 ==
    \A q \in Payloads("quality_distribution") :
        /\ ColumnTotal(q, "count_pct") = F(100)
        /\ ColumnTotal(q, "balance_pct") = F(100)

\* C13 amended: the count_pct values sum to 100 for every portfolio with at
\* least one loan, and the balance_pct values sum to 100 for every
\* portfolio whose total outstanding balance is positive.
C13_PercentagesOfNonEmptySumTo100 ==
    \A q \in Payloads("quality_distribution") :
        /\ Len(df) > 0 => ColumnTotal(q, "count_pct") = F(100)
        /\ TotalBalance > 0 => ColumnTotal(q, "balance_pct") = F(100)

\* C13 witness: a tree returned with two rows of unequal shares of the
\* balance
C13_Witness ==
    /\ result[MainCaller].status = "ok"
    /\ LET q == Get(result[MainCaller].tree, "quality_distribution")
       IN  /\ Len(q) = 2
           /\ q[1].balance_pct = F(25)
           /\ q[2].balance_pct = F(75)
           /\ q[1].count_pct = F(50)

\* the categories of a column, and the balance of one category
Categories(col) == {df[i][col] : i \in DOMAIN df}

CategoryBalance(col, v) == BalanceOf({i \in DOMAIN df : df[i][col] = v})

\* the sum over the categories S of a column of the squared balance
RECURSIVE SumOfSquares(_, _)
SumOfSquares(col, S) ==
    IF S = {} THEN 0
    ELSE LET v == CHOOSE x \in S : TRUE
         IN  CategoryBalance(col, v) * CategoryBalance(col, v) + SumOfSquares(col, S \ {v})

\* the balance is split evenly over the categories of a column
EvenSplit(col) ==
    /\ TotalBalance > 0
    /\ \A v, w \in Categories(col) : CategoryBalance(col, v) = CategoryBalance(col, w)

\* C14: for industry and for province, hhi is the sum over the categories
\* of (category balance / total balance * 100) squared; all the balance in
\* one category gives exactly 10000, an even split over N categories gives
\* 10000 / N.
C14_HhiIsSumOfSquaredShares ==
    \A m \in Payloads("concentration_risk") :
        \A col \in {"industry", "province"} :
            /\ TotalBalance > 0 =>
                  IsQuotient(m[col].hhi,
                             10000 * SumOfSquares(col, Categories(col)),
                             TotalBalance * TotalBalance)
            /\ (TotalBalance > 0 /\ \E v \in Categories(col) :
                                        CategoryBalance(col, v) = TotalBalance)
                  => m[col].hhi = F(10000)
            /\ EvenSplit(col) => m[col].hhi = Q(10000, Cardinality(Categories(col)))

\* C14 witness: a tree returned for a balance split evenly over three
\* categories, and not a divisor of 10000 their number
C14_Witness ==
    /\ result[MainCaller].status = "ok"
    /\ EvenSplit("industry")
    /\ Cardinality(Categories("industry")) = 3
    /\ Get(result[MainCaller].tree, "concentration_risk").industry.hhi = Q(10000, 3)

\* C15: concentration_level of industry and of province is High exactly
\* when hhi > 2500, Moderate exactly when 1500 < hhi <= 2500 and Low exactly
\* when hhi <= 1500; all the balance in one province gives the share 100,
\* hhi 10000 and the level High.
C15_LevelThresholdsAreStrict ==
    \A m \in Payloads("concentration_risk") :
        /\ \A col \in {"industry", "province"} :
              /\ m[col].hhi.d > 0
              /\ m[col].concentration_level =
                    IF m[col].hhi.n > 2500 * m[col].hhi.d THEN "High"
                    ELSE IF m[col].hhi.n > 1500 * m[col].hhi.d THEN "Moderate"
                    ELSE "Low"
        /\ (TotalBalance > 0 /\ Cardinality(Categories("province")) = 1) =>
              /\ m.province.top_province = F(100)
              /\ \A i \in DOMAIN m.province.details : m.province.details[i].pct = F(100)
              /\ m.province.hhi = F(10000)
              /\ m.province.concentration_level = "High"

\* C15 witness: a tree returned with a province hhi of exactly 2500, Moderate
C15_Witness ==
    /\ result[MainCaller].status = "ok"
    /\ LET m == Get(result[MainCaller].tree, "concentration_risk")
       IN  /\ m.province.hhi = F(2500)
           /\ m.province.concentration_level = "Moderate"

\* the loans at least b days past due
PastDue(b) == {i \in DOMAIN df : df[i].days_past_due >= b}

\* a PAR bucket reports the loans at least b days past due
BucketReports(bucket, b) ==
    /\ bucket.count = Cardinality(PastDue(b))
    /\ bucket.balance = BalanceOf(PastDue(b))
    /\ TotalBalance > 0 => IsQuotient(bucket.ratio, 100 * BalanceOf(PastDue(b)), TotalBalance)

\* C16: for each bucket b of 30, 60, 90 and 180 days, par<b>.count is the
\* number of loans with days_past_due >= b, the boundary included,
\* par<b>.balance the sum of their outstanding balances and par<b>.ratio
\* that balance / total balance * 100.
C16_ParBucketsAreInclusive ==
    \A m \in Payloads("par_metrics") :
        /\ BucketReports(m.par30, 30)
        /\ BucketReports(m.par60, 60)
        /\ BucketReports(m.par90, 90)
        /\ BucketReports(m.par180, 180)

\* C16 witness: a tree returned for a loan exactly 60 days past due next to
\* one 59 days past due
C16_Witness ==
    /\ result[MainCaller].status = "ok"
    /\ \E i, j \in DOMAIN df :
          /\ df[i].days_past_due = 59 /\ df[i].outstanding_balance_vnd_mil = 300
          /\ df[j].days_past_due = 60 /\ df[j].outstanding_balance_vnd_mil = 100
    /\ LET m == Get(result[MainCaller].tree, "par_metrics")
       IN  /\ m.par30.count = 2
           /\ m.par60.count = 1
           /\ m.par60.ratio = F(25)
           /\ m.par90.count = 0

\* the loans of the three early-warning predicates
EarlyDelinquent == {i \in DOMAIN df : 0 < df[i].days_past_due /\ df[i].days_past_due < 30}

WatchListed == {i \in DOMAIN df : df[i].loan_classification = 2}

NewWithIssues == {i \in DOMAIN df : df[i].months_on_book < 6 /\ df[i].days_past_due > 0}

\* an indicator reports the loans S
IndicatorReports(ind, S) ==
    /\ ind.count = Cardinality(S)
    /\ ind.balance = BalanceOf(S)
    /\ TotalBalance > 0 => IsQuotient(ind.ratio, 100 * BalanceOf(S), TotalBalance)

\* C17: each early-warning signal is evaluated over the whole portfolio on
\* its own: early_delinquency reports exactly the loans with 0 < DPD < 30,
\* watch_list exactly the loans of Class2 whatever their DPD,
\* new_loans_issues exactly the loans with months_on_book < 6 and DPD > 0;
\* a loan of several predicates is in the count and balance of each.
C17_SignalsAreIndependent ==
    \A m \in Payloads("early_warning") :
        /\ IndicatorReports(m.early_delinquency, EarlyDelinquent)
        /\ IndicatorReports(m.watch_list, WatchListed)
        /\ IndicatorReports(m.new_loans_issues, NewWithIssues)

\* C17 witness: a tree returned for one loan of all three predicates: the
\* three counts sum to more than the number of loans
C17_Witness ==
    /\ result[MainCaller].status = "ok"
    /\ Len(df) = 1
    /\ EarlyDelinquent \cap WatchListed \cap NewWithIssues # {}
    /\ LET m == Get(result[MainCaller].tree, "early_warning")
       IN  m.early_delinquency.count + m.watch_list.count + m.new_loans_issues.count = 3

\* the loans of one vintage cohort, and those of them that are NPL by the
\* NPL-membership predicate of the headline metrics
Cohort(v) == {i \in DOMAIN df : df[i].vintage = v}

CohortNpl(v) == Cohort(v) \cap NplLoans

\* C18: in vintage_analysis the npl_count, npl_balance and npl_ratio of each
\* cohort count the loans of the cohort that are of Class4/Class5 or at
\* least 90 days past due, as the headline NPL metrics do.
C18_VintageUsesNplPredicate ==
    \A t \in Payloads("vintage_analysis") :
        \A k \in DOMAIN t :
            /\ t[k].npl_count = Cardinality(CohortNpl(t[k].key))
            /\ t[k].npl_balance = BalanceOf(CohortNpl(t[k].key))
            /\ BalanceOf(Cohort(t[k].key)) > 0 =>
                  IsQuotient(t[k].npl_ratio,
                             100 * BalanceOf(CohortNpl(t[k].key)),
                             BalanceOf(Cohort(t[k].key)))

\* the columns of the required fields of a Loan Record
RequiredFields ==
    {"loan_id", "customer_segment", "province", "industry", "loan_type",
     "origination_date", "months_on_book", "original_amount_vnd_mil",
     "outstanding_balance_vnd_mil", "days_past_due", "loan_classification", "vintage"}

\* C19: a portfolio that lacks a required field of the Loan Record,
\* whichever it is, is rejected with an error: no call of
\* calculate_all_kris on it returns a result tree.
C19_MissingFieldIsRejected ==
    RequiredFields \ df_columns # {} =>
        \A c \in Callers : result[c].status # "ok" /\ pc[c] # "return"

\* the rows of a breakdown table are keyed by the distinct values of the
\* column, one row each
OneRowPerValue(table, col) ==
    /\ {table[i].key : i \in DOMAIN table} = Categories(col)
    /\ Len(table) = Cardinality(Categories(col))

\* every row of a table reports as total_balance the balance of the loans
\* of its value
RowsCarryGroupBalance(table, col) ==
    \A i \in DOMAIN table : table[i].total_balance = CategoryBalance(col, table[i].key)

\* every entry of a concentration breakdown is the share of the loans of
\* its value
EntriesCarryGroupShare(details, col) ==
    \A i \in DOMAIN details :
        TotalBalance > 0 =>
            IsQuotient(details[i].pct, 100 * CategoryBalance(col, details[i].key),
                       TotalBalance)

\* C20: every distinct customer_segment, industry, province and loan_type
\* value of the portfolio, a value outside the known vocabulary too, has
\* its own row in the NPL breakdowns, in PAR by_segment, in the
\* concentration details and in segment_performance, and the balance of
\* each row is the balance of exactly the loans of its value.
C20_UnknownValuesKeepTheirGroup ==
    /\ \A m \in Payloads("npl_metrics") :
          /\ OneRowPerValue(m.by_segment, "customer_segment")
          /\ OneRowPerValue(m.by_product, "loan_type")
          /\ OneRowPerValue(m.by_industry, "industry")
          /\ OneRowPerValue(m.by_province, "province")
          /\ RowsCarryGroupBalance(m.by_segment, "customer_segment")
          /\ RowsCarryGroupBalance(m.by_product, "loan_type")
          /\ RowsCarryGroupBalance(m.by_industry, "industry")
          /\ RowsCarryGroupBalance(m.by_province, "province")
    /\ \A m \in Payloads("par_metrics") :
          OneRowPerValue(m.by_segment, "customer_segment")
    /\ \A m \in Payloads("concentration_risk") :
          /\ OneRowPerValue(m.industry.details, "industry")
          /\ OneRowPerValue(m.province.details, "province")
          /\ OneRowPerValue(m.product.details, "loan_type")
          /\ OneRowPerValue(m.segment.details, "customer_segment")
          /\ EntriesCarryGroupShare(m.industry.details, "industry")
          /\ EntriesCarryGroupShare(m.province.details, "province")
          /\ EntriesCarryGroupShare(m.product.details, "loan_type")
          /\ EntriesCarryGroupShare(m.segment.details, "customer_segment")
    /\ \A t \in Payloads("segment_performance") :
          /\ OneRowPerValue(t, "customer_segment")
          /\ RowsCarryGroupBalance(t, "customer_segment")
          /\ \A i \in DOMAIN t :
                t[i].total_loans =
                   Cardinality({j \in DOMAIN df : df[j].customer_segment = t[i].key})

\* C20 witness: a tree returned for two loans of two different segments
\* outside the vocabulary, the one of a known and the other of an unknown
\* province
C20_Witness ==
    /\ result[MainCaller].status = "ok"
    /\ Categories("customer_segment") = {8, 9}
    /\ Categories("province") = {1, 9}
    /\ Len(Get(result[MainCaller].tree, "segment_performance")) = 2
    /\ Len(Get(result[MainCaller].tree, "concentration_risk").province.details) = 2

\* C21: a call of calculate_all_kris on an engine whose earlier call has
\* ended gives what the earlier call gave: the same keys in the same order,
\* the same values, the same rows in the same order.
C21_SecondCallGivesTheSameTree ==
    [][\A c \in Callers : result[c].status # "none" => result'[c] = result[c]]_vars

\* C21 witness: a second call about to return, the tree of the first call
\* still in the caller's hands
C21_Witness ==
    /\ result[MainCaller].status = "ok"
    /\ pc[MainCaller] = "return"
    /\ Len(df) = 2

\* C22: no step of calculate_all_kris, of a calculation or of
\* calculate_migration_matrix changes the engine's portfolio, its columns or
\* its risk_appetite, nor the Historical Series it is given: after any
\* sequence of calls they are what they were at construction.
C22_CalculationsChangeNoInput ==
    [][/\ df' = df
       /\ df_columns' = df_columns
       /\ risk_appetite' = risk_appetite
       /\ df_historical' = df_historical]_vars

\* C22 witness: a tree and a migration matrix have been returned, the
\* thresholds as constructed
C22_Witness ==
    /\ result[MainCaller].status = "ok"
    /\ migration.ret = "matrix"
    /\ risk_appetite = RiskAppetite
    /\ Len(df_historical) = 2

\* C23: on one engine shared by concurrent callers whose portfolio is not
\* changed, whatever the interleaving of the statements of the calls, every
\* caller that has been answered holds what a call running alone returns (the
\* same tree, or the same error), and a concurrent calculate_migration_matrix
\* gives the matrix of the series; a caller's answer depends on no other
\* caller's progress.
C23_EveryInterleavingGivesTheSequentialTree ==
    /\ \A c \in Callers :
          result[c].status # "none"
              => result[c] = calculate_all_kris(df, df_columns, risk_appetite)
    /\ migration.ret # "not_called" => migration = calculate_migration_matrix(df_historical)

\* C23 witness: a caller is answered with a tree while another caller is in
\* the middle of its own call
C23_Witness ==
    /\ NumCallers >= 2
    /\ result[1].status = "ok"
    /\ pc[1] = "idle"
    /\ pc[2] = "vintage_analysis"
    /\ Len(kris[2]) = 4

\* the keys of a tree in the order of insertion
KeyOrder(tree) == [i \in DOMAIN tree |-> tree[i].key]

\* C24: a caller of calculate_all_kris holds either a tree with all seven
\* metric groups or no tree at all: a call that fails in a later calculation,
\* after earlier ones have completed, answers with an error and hands over
\* none of the groups already computed.
C24_TreeIsAllOrNothing ==
    \A c \in Callers :
        /\ result[c].tree # << >> =>
              /\ result[c].status = "ok"
              /\ KeyOrder(result[c].tree) =
                     <<"npl_metrics", "par_metrics", "quality_distribution",
                       "concentration_risk", "vintage_analysis", "segment_performance",
                       "early_warning">>
        /\ result[c].status # "ok" => result[c].tree = << >>
        /\ result[c].status = "ok" => result[c].tree # << >>

\* C24 witness: a call on a portfolio with loans but without months_on_book
\* has ended in an error, raised by segment_performance after five groups
\* had been computed
C24_Witness ==
    /\ result[MainCaller].status = "error"
    /\ df # << >>
    /\ ~KeyError(NplColumns \cup ParColumns \cup QualityColumns \cup ConcentrationColumns
                    \cup VintageColumns, df_columns)
    /\ KeyError(SegmentColumns, df_columns)

\* the loans of one value of a column that are classified Class4 or Class5
ClassNplIn(col, v) ==
    {i \in DOMAIN df : df[i][col] = v /\ df[i].loan_classification \in {4, 5}}

\* every row of a table counts as NPL the loans of its group classified
\* Class4 or Class5, whatever their days_past_due
RowsUseClassOnly(table, col) ==
    \A k \in DOMAIN table :
        /\ table[k].npl_balance = BalanceOf(ClassNplIn(col, table[k].key))
        /\ CategoryBalance(col, table[k].key) > 0 =>
              IsQuotient(table[k].npl_ratio,
                         100 * BalanceOf(ClassNplIn(col, table[k].key)),
                         CategoryBalance(col, table[k].key))

\* the sum of npl_balance over the rows of a table
RECURSIVE TableNplBalance(_)
TableNplBalance(table) ==
    IF table = << >> THEN 0 ELSE Head(table).npl_balance + TableNplBalance(Tail(table))

\* the loans at least 90 days past due that are classified Class1..Class3
OverriddenLoans ==
    {i \in DOMAIN df : df[i].days_past_due >= 90 /\ df[i].loan_classification \in {1, 2, 3}}

\* the four breakdown tables of npl_metrics with their columns
BreakdownTables(m) ==
    {<<m.by_segment, "customer_segment">>, <<m.by_product, "loan_type">>,
     <<m.by_industry, "industry">>, <<m.by_province, "province">>}

\* segment_performance counts as NPL the loans of the segment classified
\* Class4 or Class5
SegmentRowsUseClassOnly ==
    \A t \in Payloads("segment_performance") :
        \A k \in DOMAIN t :
            /\ t[k].npl_count = Cardinality(ClassNplIn("customer_segment", t[k].key))
            /\ CategoryBalance("customer_segment", t[k].key) > 0 =>
                  IsQuotient(t[k].npl_ratio,
                             100 * BalanceOf(ClassNplIn("customer_segment", t[k].key)),
                             CategoryBalance("customer_segment", t[k].key))

\* C25 as stated: in the four breakdown tables and in segment_performance a
\* loan counts as NPL iff it is classified Class4 or Class5, so the
\* npl_balance of the rows of a table sum to at most the headline
\* npl_balance, with equality iff no loan is at least 90 days past due while
\* classified Class1..Class3.
C25_BreakdownsSumToHeadlineIffNoOverride ==
    /\ SegmentRowsUseClassOnly
    /\ \A m \in Payloads("npl_metrics") :
          \A tc \in BreakdownTables(m) :
              /\ RowsUseClassOnly(tc[1], tc[2])
              /\ TableNplBalance(tc[1]) <= m.npl_balance
              /\ TableNplBalance(tc[1]) = m.npl_balance <=> OverriddenLoans = {}

\* C25 amended: as above, with equality iff the loans at least 90 days past
\* due that are classified Class1..Class3 have no balance (there is none, or
\* each has an outstanding balance of zero).
C25_BreakdownsSumToHeadlineIffNoOverrideBalance ==
    /\ SegmentRowsUseClassOnly
    /\ \A m \in Payloads("npl_metrics") :
          \A tc \in BreakdownTables(m) :
              /\ RowsUseClassOnly(tc[1], tc[2])
              /\ TableNplBalance(tc[1]) <= m.npl_balance
              /\ TableNplBalance(tc[1]) = m.npl_balance <=> BalanceOf(OverriddenLoans) = 0

\* C25 witness: a returned tree for a portfolio of two segments, a Class5
\* loan with a balance in one and a Class1..Class3 loan 90 days past due with
\* a balance in the other, the tables summing to less than the headline
C25_Witness ==
    /\ result[MainCaller].status = "ok"
    /\ \E i, j \in DOMAIN df :
          /\ df[i].customer_segment # df[j].customer_segment
          /\ df[i].loan_classification = 5
          /\ df[i].outstanding_balance_vnd_mil > 0
          /\ j \in OverriddenLoans
          /\ df[j].outstanding_balance_vnd_mil > 0
    /\ TableNplBalance(Get(result[MainCaller].tree, "npl_metrics").by_segment)
           < Get(result[MainCaller].tree, "npl_metrics").npl_balance

\* every classification of the Historical Series is one of the five classes
SeriesOfKnownClasses ==
    \A i \in DOMAIN df_historical :
        df_historical[i].loan_classification \in {1, 2, 3, 4, 5}

\* no two records of one snapshot carry the same loan_id
LoanIdUniquePerSnapshot ==
    \A i, j \in DOMAIN df_historical :
        (/\ df_historical[i].snapshot_date = df_historical[j].snapshot_date
         /\ df_historical[i].loan_id = df_historical[j].loan_id) => i = j

\* the previous classes of the loans present in both of the two most recent
\* snapshots
PreviousClassesOfCommonLoans ==
    {df_historical[i].loan_classification :
        i \in {k \in HistRows(PreviousDate) :
                  df_historical[k].loan_id \in LoanIdsOf(HistRows(LatestDate))}}

Contains(a, b) == a.count >= b.count /\ a.balance >= b.balance

\* C27: the PAR buckets are nested, par30 >= par60 >= par90 >= par180 in
\* count and in balance, and the headline npl_count and npl_balance are at
\* least those of par90.
C27_ParBucketsAreNested ==
    \A m \in Payloads("par_metrics") :
        /\ Contains(m.par30, m.par60)
        /\ Contains(m.par60, m.par90)
        /\ Contains(m.par90, m.par180)
        /\ \A n \in Payloads("npl_metrics") :
              n.npl_count >= m.par90.count /\ n.npl_balance >= m.par90.balance

\* C27 witness: a returned tree for a loan 89 and a loan 180 days past due,
\* both with a balance: par60 holds both, par90 and the NPL headline one
C27_Witness ==
    /\ result[MainCaller].status = "ok"
    /\ \E i, j \in DOMAIN df :
          /\ df[i].days_past_due = 89 /\ df[i].outstanding_balance_vnd_mil > 0
          /\ df[j].days_past_due = 180 /\ df[j].outstanding_balance_vnd_mil > 0
    /\ LET m == Get(result[MainCaller].tree, "par_metrics")
           n == Get(result[MainCaller].tree, "npl_metrics")
       IN  /\ m.par60.count = 2
           /\ m.par90.count = 1
           /\ m.par60.balance > m.par90.balance
           /\ m.par180.count = 1
           /\ n.npl_count = 1

\* the records of the two most recent snapshot dates, in the order of the
\* series
RecentRecords ==
    SelectSeq(df_historical, LAMBDA r : r.snapshot_date \in {LatestDate, PreviousDate})

\* C28: with at least two distinct snapshot dates, what
\* calculate_migration_matrix returns is what it returns on the records of
\* the two most recent dates alone: the records of older snapshots, whatever
\* they are, change nothing.
C28_OnlyTheTwoLatestSnapshotsCount ==
    (migration.ret # "not_called" /\ Cardinality(HistDates) >= 2) =>
        migration = calculate_migration_matrix(RecentRecords)

\* C28 witness: a matrix from a series of three snapshot dates whose oldest
\* record is of a loan present in both recent snapshots, in another class
\* than in the previous snapshot
C28_Witness ==
    /\ migration.ret = "matrix"
    /\ Cardinality(HistDates) = 3
    /\ \E o \in DOMAIN df_historical : \E p \in JoinedPairs :
          /\ df_historical[o].snapshot_date < PreviousDate
          /\ df_historical[o].loan_id = df_historical[p[1]].loan_id
          /\ df_historical[o].loan_classification # df_historical[p[1]].loan_classification

\* C29: the engine works on a copy of the portfolio taken at construction:
\* whatever the caller does afterwards to the frame it passed (drop, add or
\* edit records), the engine's portfolio stays as constructed and every call
\* that ends is answered with the tree of that portfolio, not of the
\* caller's changed one.
C29_EngineKeepsItsOwnCopy ==
    [][/\ df' = df
       /\ \A c \in Callers :
             result'[c] # result[c]
                 => result'[c] = calculate_all_kris(df, df_columns, risk_appetite)]_vars

\* C29 witness: a call has been answered with a tree while the caller's
\* frame is no longer the one the engine was constructed from, and the tree
\* is not the one of the caller's frame
C29_Witness ==
    /\ df_caller # df
    /\ result[MainCaller].status = "ok"
    /\ result[MainCaller] # calculate_all_kris(df_caller, df_columns, risk_appetite)

\* the loans of one classification
LoansOfClass(k) == {i \in DOMAIN df : df[i].loan_classification = k}

\* C30: quality_distribution has one row per classification that occurs in
\* the portfolio, counting its loans, and no row for a class without loans
\* (fewer than five rows when fewer than five classes occur); the row of a
\* classification outside the five classes comes after every row of the
\* five classes.
C30_RowsOnlyForOccurringClasses ==
    \A q \in Payloads("quality_distribution") :
        /\ Len(q) = Cardinality({df[i].loan_classification : i \in DOMAIN df})
        /\ \A i \in DOMAIN q :
              /\ q[i].count = Cardinality(LoansOfClass(q[i].classification))
              /\ q[i].count >= 1
        /\ \A k \in {df[i].loan_classification : i \in DOMAIN df} :
              \E i \in DOMAIN q : q[i].classification = k
        /\ \A i, j \in DOMAIN q :
              (q[i].classification \notin {1, 2, 3, 4, 5}
                  /\ q[j].classification \in {1, 2, 3, 4, 5}) => j < i

\* C30 witness: a tree returned for a portfolio of a loan of a classification
\* that sorts before the five classes and a Class2 loan: two rows, Class2
\* first
C30_Witness ==
    /\ result[MainCaller].status = "ok"
    /\ Len(df) = 2
    /\ df[1].loan_classification = 0
    /\ df[2].loan_classification = 2
    /\ LET q == Get(result[MainCaller].tree, "quality_distribution")
       IN  Len(q) = 2 /\ q[1].classification = 2 /\ q[2].classification = 0


=============================================================================
